---- MODULE Spec2Model ----
(***************************************************************************)
(* Model of the Pacman contest runner.                                     *)
(*   src/pacman-ssh-contest.py  ContestRunner (local and cluster modes)    *)
(*   src/ssh_commands_script.py ContestRunner (the earlier, local script)  *)
(*                                                                         *)
(* A match log is a sequence of lines, a line a sequence of tokens joined  *)
(* by single blanks.  The phrases the parser searches for ("wins by",      *)
(* "agent crashed", "Tie Game", "team has returned at least") are single   *)
(* tokens, so that str.find / str.split on them become a search for / a    *)
(* cut at consecutive tokens.                                              *)
(***************************************************************************)
EXTENDS Integers, Sequences, FiniteSets, TLC

VARIABLES
    teams,       \* self.teams: the team names, in setup order
    layouts,     \* self.layouts
    ladder,      \* self.ladder: team -> sequence of signed scores
    games,       \* self.games: sequence of <<red, blue, layout, score, winner>>
    errors,      \* self.errors: team -> crash counter
    team_stats,  \* self.team_stats: team -> 0 or <<points, wins, draws, loses, errors, sum>>
    mode,        \* which entry point is running: "none", "local", "remote", "ssh", "parse"
    pc,          \* position of the driver
    jobs,        \* the jobs built by run_contest_remotely (their ids)
    results,     \* the list cm.start() returned
    idx,         \* loop position in run_contest / _analyse_all_outputs
    call,        \* arguments of the latest _parse_result call
    ret          \* value returned by the latest _parse_result call

vars == <<teams, layouts, ladder, games, errors, team_stats, mode, pc, jobs,
          results, idx, call, ret>>

----------------------------------------------------------------------------
(* Bounds of the model *)

\* teams of a tournament run
MaxTeams == 3
\* fixed layouts sampled by _prepare_platform
MaxFixedLayouts == 1
\* RANDOM<k> layouts generated by _prepare_platform
MaxRandomLayouts == 2
\* largest seed k of a RANDOM<k> layout (the code draws from 1..9999)
MaxSeed == 1
\* matches of a tournament run that is executed
MaxMatches == 3
\* lines of a match log given to the parser alone
MaxLines == 2
\* teams and layouts of a run that is only planned
PlanMaxTeams == 4
PlanMaxFixed == 2

----------------------------------------------------------------------------
(* Python values *)

\* None, as winner / loser / return value
None == "None"

TeamPool == <<"teamA", "teamB", "teamC", "teamD", "teamE", "teamF">>

Abs(n) == IF n < 0 THEN -n ELSE n

\* The numerals that occur in the logs, and their values under int().
NumeralValue ==
    ("0" :> 0) @@ ("1" :> 1) @@ ("2" :> 2) @@ ("7" :> 7) @@ ("-3" :> -3)

\* int(s) for the text s made of the tokens seg: a value, or ValueError.
PyInt(seg) ==
    IF Len(seg) = 1 /\ seg[1] \in DOMAIN NumeralValue
    THEN [ok |-> TRUE, val |-> NumeralValue[seg[1]]]
    ELSE [ok |-> FALSE, val |-> 0]

\* Positions at which phrase occurs in line.
Occurrences(line, phrase) ==
    {i \in 1..(Len(line) - Len(phrase) + 1) :
        SubSeq(line, i, i + Len(phrase) - 1) = phrase}

\* line.find(phrase) != -1
Find(line, phrase) == Occurrences(line, phrase) # {}

\* Positions at which phrase occurs followed by a blank (one more token).
OccurrencesSp(line, phrase) ==
    {i \in Occurrences(line, phrase) : i + Len(phrase) - 1 < Len(line)}

\* line.find(phrase + ' ') != -1
FindSp(line, phrase) == OccurrencesSp(line, phrase) # {}

SetMin(S) == CHOOSE x \in S : \A y \in S : x <= y

\* line.split(phrase)[0]
SplitHead(line, phrase) ==
    IF Find(line, phrase)
    THEN SubSeq(line, 1, SetMin(Occurrences(line, phrase)) - 1)
    ELSE line

\* line.split(phrase)[1], for a line that holds phrase
SplitSecond(line, phrase) ==
    LET i == SetMin(Occurrences(line, phrase))
        rest == SubSeq(line, i + Len(phrase), Len(line))
    IN  SplitHead(rest, phrase)

\* line.split(phrase + ' ')[1].split(' ')[0], for a line that holds phrase + ' '
TokenAfter(line, phrase) ==
    LET i == SetMin(OccurrencesSp(line, phrase))
    IN  <<line[i + Len(phrase)]>>

WINS_BY == <<"wins by">>
POINTS == <<"points">>
BLUE_RETURNED == <<"The", "Blue", "team has returned at least">>
RED_RETURNED == <<"The", "Red", "team has returned at least">>
TIE_GAME == <<"Tie Game">>
AGENT_CRASHED == <<"agent crashed">>
RED_CRASHED == <<"Red", "agent crashed">>
BLUE_CRASHED == <<"Blue", "agent crashed">>

----------------------------------------------------------------------------
(* _parse_result of src/pacman-ssh-contest.py *)

\* ParseStart with the flag set from the start
ParseStartFlagged(errs) ==
    [score |-> 0, winner |-> None, loser |-> None, bug |-> TRUE,
     errors |-> errs, raised |-> FALSE]

\* The locals of _parse_result together with self.errors; raised marks a
\* ValueError that left the function.
ParseStart(errs) ==
    [score |-> 0, winner |-> None, loser |-> None, bug |-> FALSE,
     errors |-> errs, raised |-> FALSE]

\* WinsByRule without abs(): score = int(...)
WinsByRuleNoAbs(st, line, red, blue) ==
    IF ~Find(line, WINS_BY) THEN st
    ELSE LET n == PyInt(SplitHead(SplitSecond(line, WINS_BY), POINTS))
         IN  IF ~n.ok THEN [st EXCEPT !.raised = TRUE]
             ELSE IF Find(line, <<"Red">>)
                  THEN [st EXCEPT !.score = n.val, !.winner = red, !.loser = blue]
             ELSE IF Find(line, <<"Blue">>)
                  THEN [st EXCEPT !.score = n.val, !.winner = blue, !.loser = red]
             ELSE [st EXCEPT !.score = n.val]

\* if line.find("wins by") != -1: ...
WinsByRule(st, line, red, blue) ==
    IF ~Find(line, WINS_BY) THEN st
    ELSE LET n == PyInt(SplitHead(SplitSecond(line, WINS_BY), POINTS))
         IN  IF ~n.ok THEN [st EXCEPT !.raised = TRUE]
             ELSE IF Find(line, <<"Red">>)
                  THEN [st EXCEPT !.score = Abs(n.val), !.winner = red, !.loser = blue]
             ELSE IF Find(line, <<"Blue">>)
                  THEN [st EXCEPT !.score = Abs(n.val), !.winner = blue, !.loser = red]
             ELSE [st EXCEPT !.score = Abs(n.val)]

\* CrashRule that leaves the score as it was
CrashRuleKeepsScore(st, line, red, blue) ==
    LET s0 == [st EXCEPT !.bug = TRUE]
        s1 == IF Find(line, RED_CRASHED)
              THEN [s0 EXCEPT !.errors[red] = @ + 1, !.winner = blue, !.loser = red]
              ELSE s0
    IN  IF Find(line, BLUE_CRASHED)
        THEN [s1 EXCEPT !.errors[blue] = @ + 1, !.winner = red, !.loser = blue]
        ELSE s1

\* CrashRule that names the winner of a crash and leaves the loser as it was
CrashRuleWinnerOnly(st, line, red, blue) ==
    LET s0 == [st EXCEPT !.bug = TRUE]
        s1 == IF Find(line, RED_CRASHED)
              THEN [s0 EXCEPT !.errors[red] = @ + 1, !.winner = blue, !.score = 1]
              ELSE s0
    IN  IF Find(line, BLUE_CRASHED)
        THEN [s1 EXCEPT !.errors[blue] = @ + 1, !.winner = red, !.score = 1]
        ELSE s1

\* The body of: elif line.find("agent crashed") != -1
CrashRule(st, line, red, blue) ==
    LET s0 == [st EXCEPT !.bug = TRUE]
        s1 == IF Find(line, RED_CRASHED)
              THEN [s0 EXCEPT !.errors[red] = @ + 1,
                              !.winner = blue, !.loser = red, !.score = 1]
              ELSE s0
    IN  IF Find(line, BLUE_CRASHED)
        THEN [s1 EXCEPT !.errors[blue] = @ + 1,
                        !.winner = red, !.loser = blue, !.score = 1]
        ELSE s1

\* ChainRule whose 'has returned at least' branches leave a result that an
\* earlier line has set
ChainRuleFirstResultStays(st, line, red, blue) ==
    IF FindSp(line, BLUE_RETURNED)
    THEN LET n == PyInt(TokenAfter(line, BLUE_RETURNED))
         IN  IF ~n.ok THEN [st EXCEPT !.raised = TRUE]
             ELSE IF st.winner # None THEN st
             ELSE [st EXCEPT !.score = Abs(n.val), !.winner = blue, !.loser = red]
    ELSE IF FindSp(line, RED_RETURNED)
    THEN LET n == PyInt(TokenAfter(line, RED_RETURNED))
         IN  IF ~n.ok THEN [st EXCEPT !.raised = TRUE]
             ELSE IF st.winner # None THEN st
             ELSE [st EXCEPT !.score = Abs(n.val), !.winner = red, !.loser = blue]
    ELSE IF Find(line, TIE_GAME)
    THEN [st EXCEPT !.winner = None, !.loser = None]
    ELSE IF Find(line, AGENT_CRASHED)
    THEN CrashRule(st, line, red, blue)
    ELSE st

\* if "The Blue team has returned at least " / elif Red / elif Tie / elif crashed
ChainRule(st, line, red, blue) ==
    IF FindSp(line, BLUE_RETURNED)
    THEN LET n == PyInt(TokenAfter(line, BLUE_RETURNED))
         IN  IF ~n.ok THEN [st EXCEPT !.raised = TRUE]
             ELSE [st EXCEPT !.score = Abs(n.val), !.winner = blue, !.loser = red]
    ELSE IF FindSp(line, RED_RETURNED)
    THEN LET n == PyInt(TokenAfter(line, RED_RETURNED))
         IN  IF ~n.ok THEN [st EXCEPT !.raised = TRUE]
             ELSE [st EXCEPT !.score = Abs(n.val), !.winner = red, !.loser = blue]
    ELSE IF Find(line, TIE_GAME)
    THEN [st EXCEPT !.winner = None, !.loser = None]
    ELSE IF Find(line, AGENT_CRASHED)
    THEN CrashRule(st, line, red, blue)
    ELSE st

\* One iteration of: for line in output.splitlines()
ParseLine(st, line, red, blue) ==
    LET s1 == WinsByRule(st, line, red, blue)
    IN  IF s1.raised THEN s1 ELSE ChainRule(s1, line, red, blue)

RECURSIVE ParseLines(_, _, _, _)
ParseLines(st, lines, red, blue) ==
    IF lines = <<>> \/ st.raised THEN st
    ELSE ParseLines(ParseLine(st, Head(lines), red, blue), Tail(lines), red, blue)

\* _parse_result that also reports a crash when self.errors already counts
\* one for a team of the match
parse_result_sticky_crash(output, red, blue, errs) ==
    LET st == ParseLines(ParseStart(errs), output, red, blue)
    IN  IF errs[red] > 0 \/ errs[blue] > 0 THEN [st EXCEPT !.bug = TRUE] ELSE st

\* _parse_result(output, red_team_name, blue_team_name) run with self.errors = errs
parse_result(output, red, blue, errs) ==
    ParseLines(ParseStart(errs), output, red, blue)

\* return score, winner, loser, bug
Returned(st) ==
    IF st.raised THEN "ValueError"
    ELSE [score |-> st.score, winner |-> st.winner, loser |-> st.loser, bug |-> st.bug]

----------------------------------------------------------------------------
(* Match logs *)

RedWins7 == <<"The", "Red", "team", "wins by", "7", "points">>
BlueWins2 == <<"The", "Blue", "team", "wins by", "2", "points">>
BlueWinsNeg3 == <<"The", "Blue", "team", "wins by", "-3", "points">>
RedWins0 == <<"The", "Red", "team", "wins by", "0", "points">>
WinsNobody == <<"wins by", "7", "points">>
WinsNoNumber == <<"The", "Red", "team", "wins by", "points">>
BlueReturned2 == <<"The", "Blue", "team has returned at least", "2", "dots">>
RedReturned7 == <<"The", "Red", "team has returned at least", "7", "dots">>
RedReturnedCut == <<"The", "Red", "team has returned at least">>
BlueReturnedX == <<"The", "Blue", "team has returned at least", "many">>
TieGame == <<"Tie Game">>
RedCrashed == <<"Red", "agent crashed">>
BlueCrashed == <<"Blue", "agent crashed">>
SomeCrashed == <<"An", "agent crashed">>
BothCrashed == <<"Red", "agent crashed", "Blue", "agent crashed">>
RedCrashedTie == <<"Red", "agent crashed", "Tie Game">>
BlueCrashedReturned == <<"Blue", "agent crashed", "The", "Red", "team has returned at least", "1", "dots">>
RedWinsBlueCrashed == <<"The", "Red", "team", "wins by", "7", "points", "Blue", "agent crashed">>
BlueWinsTie == <<"The", "Blue", "team", "wins by", "2", "points", "Tie Game">>
BlueReturnedTie == <<"The", "Blue", "team has returned at least", "2", "dots", "Tie Game">>
TimeIsUp == <<"Time", "is", "up">>

\* The lines given to the parser when it is examined alone.
ParseLinesPool ==
    {RedWins7, BlueWins2, BlueWinsNeg3, RedWins0, WinsNobody, WinsNoNumber,
     BlueReturned2, RedReturned7, RedReturnedCut, BlueReturnedX, TieGame,
     RedCrashed, BlueCrashed, SomeCrashed, BothCrashed, RedCrashedTie,
     BlueCrashedReturned, RedWinsBlueCrashed, BlueWinsTie, BlueReturnedTie,
     TimeIsUp}

SeqsUpTo(S, n) == UNION {[1..k -> S] : k \in 0..n}

ParseTexts == SeqsUpTo(ParseLinesPool, MaxLines)

----------------------------------------------------------------------------
(* The parser alone: one call of _parse_result on any log *)

TeamSet(ts) == {ts[i] : i \in DOMAIN ts}

InitParse ==
    /\ teams = SubSeq(TeamPool, 1, MaxTeams)
    /\ layouts = <<>>
    /\ ladder = [t \in TeamSet(teams) |-> <<>>]
    /\ games = <<>>
    /\ errors \in [TeamSet(teams) -> {0}]
    /\ team_stats = [t \in TeamSet(teams) |-> 0]
    /\ mode = "parse"
    /\ pc = "call"
    /\ jobs = <<>>
    /\ results = <<>>
    /\ idx = 0
    /\ call \in {c \in [output : ParseTexts, red : TeamSet(teams),
                         blue : TeamSet(teams)] : c.red # c.blue}
    /\ ret = None

\* self._parse_result(output, red_team_name, blue_team_name)
ParseResult ==
    /\ mode = "parse" /\ pc = "call"
    /\ LET st == parse_result(call.output, call.red, call.blue, errors)
       IN  /\ errors' = st.errors
           /\ ret' = Returned(st)
           /\ pc' = IF st.raised THEN "raised" ELSE "returned"
    /\ UNCHANGED <<teams, layouts, ladder, games, team_stats, mode, jobs,
                   results, idx, call>>

NextParse == ParseResult

SpecParse == InitParse /\ [][NextParse]_vars

----------------------------------------------------------------------------
(* Setup: _prepare_platform and the team list *)

\* The layout names found in layouts.zip.
LayoutsAvailable == <<"alleyCapture", "bloxCapture">>

Injective(f) == \A i, j \in DOMAIN f : i # j => f[i] # f[j]

\* random.sample(avail, k): k entries at distinct positions, in any order
Sample(avail, k) ==
    {[i \in 1..k |-> avail[f[i]]] :
        f \in {g \in [1..k -> 1..Len(avail)] : Injective(g)}}

\* 'RANDOM' + str(random.randint(1, 9999)), the seed bounded by MaxSeed
RandomLayouts == {"RANDOM" \o ToString(k) : k \in 1..MaxSeed}

\* The values _prepare_platform can leave in self.layouts.
prepare_platform(avail, no_fixed_layouts, no_random_layouts) ==
    LET fixed == IF no_fixed_layouts >= Len(avail) THEN {avail}
                 ELSE Sample(avail, no_fixed_layouts)
        random == IF no_random_layouts > 0
                  THEN [1..no_random_layouts -> RandomLayouts]
                  ELSE {<<>>}
    IN  {f \o r : f \in fixed, r \in random}

\* self.teams after the _setup_team calls: a team name is added once only.
setup_teams(n) == SubSeq(TeamPool, 1, n)

----------------------------------------------------------------------------
(* Planning: combinations(self.teams, r=2) x self.layouts *)

RECURSIVE CombinationsFrom(_, _, _)
CombinationsFrom(s, i, j) ==
    IF i >= Len(s) THEN <<>>
    ELSE IF j > Len(s) THEN CombinationsFrom(s, i + 1, i + 2)
    ELSE << <<s[i], s[j]>> >> \o CombinationsFrom(s, i, j + 1)

\* itertools.permutations(s, r=2) in place of combinations: both orders of a pair
permutations(s) ==
    CombinationsFrom(s, 1, 2) \o
    [k \in 1..Len(CombinationsFrom(s, 1, 2)) |->
        <<CombinationsFrom(s, 1, 2)[k][2], CombinationsFrom(s, 1, 2)[k][1]>>]

\* itertools.combinations(s, r=2), in the order it yields
combinations(s) == CombinationsFrom(s, 1, 2)

\* The (red_team, blue_team, layout) triples of the two nested loops, the
\* layouts innermost.
Matches(ts, ls) ==
    LET c == combinations(ts)
    IN  [k \in 1..(Len(c) * Len(ls)) |->
            <<c[((k - 1) \div Len(ls)) + 1][1],
              c[((k - 1) \div Len(ls)) + 1][2],
              ls[((k - 1) % Len(ls)) + 1]>>]

\* Job(..., id=(red_team, blue_team, layout)); the replay file it returns
generate_job(red_team, blue_team, layout) ==
    [id |-> <<red_team, blue_team, layout>>,
     return_file |-> <<red_team, "_vs_", blue_team, "_", layout, ".replay">>]

----------------------------------------------------------------------------
(* Aggregation *)

\* The part of the runner an analysed match changes.
Tally(l, g, e) == [ladder |-> l, games |-> g, errors |-> e]

\* The ladder update with an assignment where the code appends: the ladder
\* of each team of the match becomes the one new entry
update_ladder_overwrites(l, red, blue, r) ==
    IF r.winner = None
    THEN [l EXCEPT ![red] = <<r.score>>, ![blue] = <<r.score>>]
    ELSE [[l EXCEPT ![r.winner] = <<r.score>>]
             EXCEPT ![r.loser] = <<-r.score>>]

\* The ladder update of _analyse_output
update_ladder(l, red, blue, r) ==
    IF r.winner = None
    THEN [l EXCEPT ![red] = Append(@, r.score), ![blue] = Append(@, r.score)]
    ELSE [[l EXCEPT ![r.winner] = Append(@, r.score)]
             EXCEPT ![r.loser] = Append(@, -r.score)]

CRASH_SCORE == 9999

\* The games record with the parsed score for a crashed match too
game_record_parsed_score(red, blue, layout, r) ==
    <<red, blue, layout, r.score, r.winner>>

\* The games record of _analyse_output
game_record(red, blue, layout, r) ==
    IF ~r.bug THEN <<red, blue, layout, r.score, r.winner>>
    ELSE <<red, blue, layout, CRASH_SCORE, r.winner>>

\* _analyse_output that keeps a crashed match out of self.games
analyse_output_drops_crashed(t, red, blue, layout, output) ==
    LET st == parse_result(output, red, blue, t.errors)
    IN  IF st.raised
        THEN [ladder |-> t.ladder, games |-> t.games, errors |-> st.errors,
              ret |-> Returned(st), raised |-> TRUE]
        ELSE [ladder |-> update_ladder(t.ladder, red, blue, Returned(st)),
              games |-> IF st.bug THEN t.games
                        ELSE Append(t.games, game_record(red, blue, layout, Returned(st))),
              errors |-> st.errors,
              ret |-> Returned(st), raised |-> FALSE]

\* _analyse_output(red_team, blue_team, layout, exit_code, output) on the tally t;
\* exit_code only selects the console message.
analyse_output(t, red, blue, layout, output) ==
    LET st == parse_result(output, red, blue, t.errors)
    IN  IF st.raised
        THEN [ladder |-> t.ladder, games |-> t.games, errors |-> st.errors,
              ret |-> Returned(st), raised |-> TRUE]
        ELSE [ladder |-> update_ladder(t.ladder, red, blue, Returned(st)),
              games |-> Append(t.games, game_record(red, blue, layout, Returned(st))),
              errors |-> st.errors,
              ret |-> Returned(st), raised |-> FALSE]

RECURSIVE ScoreStatsLastSum(_)
\* The loop with sum_score = s in place of sum_score += s
ScoreStatsLastSum(scores) ==
    IF scores = <<>> THEN <<0, 0, 0, 0>>
    ELSE LET s == Head(scores)
             r == ScoreStatsLastSum(Tail(scores))
             sum == IF Tail(scores) = <<>> THEN s ELSE r[4]
         IN  IF s > 0 THEN <<r[1] + 1, r[2], r[3], sum>>
             ELSE IF s = 0 THEN <<r[1], r[2] + 1, r[3], sum>>
             ELSE <<r[1], r[2], r[3] + 1, sum>>

RECURSIVE ScoreStats(_)
\* The loop over one team's scores: <<wins, draws, loses, sum_score>>
ScoreStats(scores) ==
    IF scores = <<>> THEN <<0, 0, 0, 0>>
    ELSE LET s == Head(scores)
             r == ScoreStats(Tail(scores))
         IN  IF s > 0 THEN <<r[1] + 1, r[2], r[3], r[4] + s>>
             ELSE IF s = 0 THEN <<r[1], r[2] + 1, r[3], r[4] + s>>
             ELSE <<r[1], r[2], r[3] + 1, r[4] + s>>

\* _calculate_team_stats giving a point for every lost match, not every draw
calculate_team_stats_points_for_losses(l, e) ==
    [t \in DOMAIN l |->
        LET c == ScoreStats(l[t])
        IN  <<(c[1] * 3) + c[3], c[1], c[2], c[3], e[t], c[4]>>]

\* _calculate_team_stats adding to the counts of the standings it reported
\* before, where there are any
calculate_team_stats_accumulating(l, e) ==
    [t \in DOMAIN l |->
        LET c == ScoreStats(l[t])
            old == IF pc = "reported" THEN team_stats[t] ELSE <<0, 0, 0, 0, 0, 0>>
        IN  <<old[1] + (c[1] * 3) + c[2], old[2] + c[1], old[3] + c[2],
              old[4] + c[3], old[5] + e[t], old[6] + c[4]>>]

\* _calculate_team_stats: the new self.team_stats
calculate_team_stats(l, e) ==
    [t \in DOMAIN l |->
        LET c == ScoreStats(l[t])
        IN  <<(c[1] * 3) + c[2], c[1], c[2], c[3], e[t], c[4]>>]

\* the text of a finished job without what the job wrote to stderr
remote_log_stdout(r) == r.output

\* the text of a finished job that is analysed: output + error
remote_log(r) == r.output \o r.error

RECURSIVE analyse_all_outputs(_, _)
\* _analyse_all_outputs(results) on the tally t, to its end or to the first raise
analyse_all_outputs(t, rs) ==
    IF rs = <<>> THEN [ladder |-> t.ladder, games |-> t.games, errors |-> t.errors,
                       raised |-> FALSE]
    ELSE LET r == Head(rs)
             a == analyse_output(t, r.id[1], r.id[2], r.id[3], remote_log(r))
         IN  IF a.raised
             THEN [ladder |-> a.ladder, games |-> a.games, errors |-> a.errors,
                   raised |-> TRUE]
             ELSE analyse_all_outputs(Tally(a.ladder, a.games, a.errors), Tail(rs))

RECURSIVE run_matches(_, _, _)
\* The loops of run_contest() over the matches ms, the k-th match leaving the
\* text logs[k]: _run_match analyses one match after the other, to the end
\* or to the first raise.
run_matches(t, ms, logs) ==
    IF ms = <<>> THEN [ladder |-> t.ladder, games |-> t.games, errors |-> t.errors,
                       raised |-> FALSE]
    ELSE LET m == Head(ms)
             a == analyse_output(t, m[1], m[2], m[3], Head(logs))
         IN  IF a.raised
             THEN [ladder |-> a.ladder, games |-> a.games, errors |-> a.errors,
                   raised |-> TRUE]
             ELSE run_matches(Tally(a.ladder, a.games, a.errors), Tail(ms), Tail(logs))

\* run_contest() of a runner just constructed for the teams ts and layouts ls
run_contest(ts, ls, logs) ==
    run_matches(Tally([t \in TeamSet(ts) |-> <<>>], <<>>, [t \in TeamSet(ts) |-> 0]),
                Matches(ts, ls), logs)

----------------------------------------------------------------------------
(* The logs a match can leave *)

\* stdout and stderr of a remote job
RemoteLogs ==
    {[output |-> <<RedWins7>>, error |-> <<>>],
     [output |-> <<TieGame>>, error |-> <<>>],
     [output |-> <<BlueReturned2>>, error |-> <<RedCrashed>>],
     [output |-> <<WinsNoNumber>>, error |-> <<>>]}

\* the merged output commands.getstatusoutput gives of a local match: what a
\* remote job can leave, a win by 0 points, a win followed by 'Tie Game'
MatchLogs ==
    {r.output \o r.error : r \in RemoteLogs} \cup {<<RedWins0>>, <<RedWins7, TieGame>>}

----------------------------------------------------------------------------
(* The tournament of src/pacman-ssh-contest.py *)

\* The state __init__ leaves.
Constructed(ts, ls) ==
    /\ teams = ts
    /\ layouts = ls
    /\ ladder = [t \in TeamSet(ts) |-> <<>>]
    /\ games = <<>>
    /\ errors = [t \in TeamSet(ts) |-> 0]
    /\ team_stats = [t \in TeamSet(ts) |-> 0]
    /\ mode = "none"
    /\ pc = "init"
    /\ jobs = <<>>
    /\ results = <<>>
    /\ idx = 0
    /\ call = None
    /\ ret = None

Init ==
    \E n \in 0..MaxTeams, nf \in 0..MaxFixedLayouts, nr \in 0..MaxRandomLayouts :
        \E ls \in prepare_platform(LayoutsAvailable, nf, nr) :
            /\ Len(Matches(setup_teams(n), ls)) <= MaxMatches
            /\ Constructed(setup_teams(n), ls)

\* run_contest(): entering the loops
RunContest ==
    /\ pc = "init"
    /\ mode' = "local"
    /\ idx' = 1
    /\ pc' = IF Len(Matches(teams, layouts)) = 0 THEN "finished" ELSE "running"
    /\ UNCHANGED <<teams, layouts, ladder, games, errors, team_stats, jobs,
                   results, call, ret>>

\* What one analysed match leaves in the runner; m is the match, log its output.
Analysed(m, log, last) ==
    LET a == analyse_output(Tally(ladder, games, errors), m[1], m[2], m[3], log)
    IN  /\ call' = [output |-> log, red |-> m[1], blue |-> m[2]]
        /\ ret' = a.ret
        /\ ladder' = a.ladder
        /\ games' = a.games
        /\ errors' = a.errors
        /\ idx' = idx + 1
        /\ pc' = IF a.raised THEN "raised"
                 ELSE IF last THEN "finished" ELSE pc

\* One iteration of run_contest: _run_match(red_team, blue_team, layout)
RunMatch ==
    /\ mode = "local" /\ pc = "running"
    /\ \E log \in MatchLogs :
          Analysed(Matches(teams, layouts)[idx], log,
                   idx = Len(Matches(teams, layouts)))
    /\ UNCHANGED <<teams, layouts, team_stats, mode, jobs, results>>

\* run_contest_remotely that hands the batch over before the job of the last
\* match is built
RunContestRemotelyEarlySubmit ==
    /\ pc = "init"
    /\ mode' = "remote"
    /\ jobs' = [k \in 1..(Len(Matches(teams, layouts)) - 1) |->
                  LET m == Matches(teams, layouts)[k]
                  IN  generate_job(m[1], m[2], m[3])]
    /\ pc' = "submitted"
    /\ UNCHANGED <<teams, layouts, ladder, games, errors, team_stats, results,
                   idx, call, ret>>

\* run_contest_remotely(hosts) up to cm.start(): every job is built, then
\* the batch is handed to the cluster manager.
RunContestRemotely ==
    /\ pc = "init"
    /\ mode' = "remote"
    /\ jobs' = [k \in DOMAIN Matches(teams, layouts) |->
                  LET m == Matches(teams, layouts)[k]
                  IN  generate_job(m[1], m[2], m[3])]
    /\ pc' = "submitted"
    /\ UNCHANGED <<teams, layouts, ladder, games, errors, team_stats, results,
                   idx, call, ret>>

\* The result lists a cluster manager that keeps its contract can return:
\* one record per job, in any order.
GatewayResults(js) ==
    {[k \in DOMAIN js |-> [id |-> js[p[k]].id, output |-> o[k].output,
                           error |-> o[k].error]] :
        p \in {q \in [DOMAIN js -> DOMAIN js] : Injective(q)},
        o \in [DOMAIN js -> RemoteLogs]}

\* results = cm.start()
ClusterReturn ==
    /\ mode = "remote" /\ pc = "submitted"
    /\ results' \in GatewayResults(jobs)
    /\ idx' = 1
    /\ pc' = IF Len(jobs) = 0 THEN "finished" ELSE "analysing"
    /\ UNCHANGED <<teams, layouts, ladder, games, errors, team_stats, mode, jobs,
                   call, ret>>

\* One iteration of _analyse_all_outputs(results)
AnalyseResult ==
    /\ mode = "remote" /\ pc = "analysing"
    /\ Analysed(results[idx].id, remote_log(results[idx]), idx = Len(results))
    /\ UNCHANGED <<teams, layouts, team_stats, mode, jobs, results>>

\* The report _generate_output() returns: one of the two sentences when no
\* match was run, or else the standings table and the table of the games, a
\* game with score 9999 shown as FAILED without its score.
generate_output(ts, stats, gs) ==
    IF Len(ts) = 0 THEN "No teams participated, thus no match was run."
    ELSE IF Len(ts) = 1 THEN "Only one team participated, thus no match was run."
    ELSE [standings |-> stats,
          games |-> [k \in DOMAIN gs |->
                        IF gs[k][4] = CRASH_SCORE
                        THEN <<gs[k][1], gs[k][2], gs[k][3], "--", "FAILED">>
                        ELSE gs[k]]]

\* update_www() after the run: _generate_run_html makes the www directory of
\* the run, recomputes the standings and writes the report
UpdateWww ==
    /\ pc = "finished"
    /\ team_stats' = calculate_team_stats(ladder, errors)
    /\ pc' = "reported"
    /\ UNCHANGED <<teams, layouts, ladder, games, errors, mode, jobs, results,
                   idx, call, ret>>

\* update_www() once more: os.makedirs(self.www_dir_full_path) finds the
\* directory the first call made and raises OSError before anything is
\* recomputed
UpdateWwwAgain ==
    /\ pc = "reported"
    /\ pc' = "update_failed"
    /\ UNCHANGED <<teams, layouts, ladder, games, errors, team_stats, mode, jobs,
                   results, idx, call, ret>>

\* _calculate_team_stats() called on the runner, before or after its report
CalculateTeamStats ==
    /\ pc \in {"finished", "reported"}
    /\ team_stats' = calculate_team_stats(ladder, errors)
    /\ UNCHANGED <<teams, layouts, ladder, games, errors, mode, pc, jobs, results,
                   idx, call, ret>>

Next ==
    \/ RunContest
    \/ RunMatch
    \/ RunContestRemotely
    \/ ClusterReturn
    \/ AnalyseResult
    \/ UpdateWww
    \/ UpdateWwwAgain
    \/ CalculateTeamStats

Spec == Init /\ [][Next]_vars

----------------------------------------------------------------------------
(* run_contest_remotely() behind a cluster manager that breaks its contract *)

\* the largest batch the broken cluster manager is given
MaxFaultyJobs == 2

\* the sequence s with x put in at position k
InsertAt(s, k, x) == SubSeq(s, 1, k - 1) \o <<x>> \o SubSeq(s, k, Len(s))

\* The keys of a record that should not be there: the key of a job (a second
\* record for it), a job's key with the colours swapped, a job's key with a
\* layout that was not planned.  The teams are teams of the contest.
StrayIds(js) ==
    UNION {{js[k].id,
            <<js[k].id[2], js[k].id[1], js[k].id[3]>>,
            <<js[k].id[1], js[k].id[2], "ghostCapture">>} : k \in DOMAIN js}

\* The result lists of a cluster manager that returns one record too many:
\* the records of GatewayResults and one stray record, anywhere in the list.
FaultyGatewayResults(js) ==
    {InsertAt(rs, k, [id |-> i, output |-> o.output, error |-> o.error]) :
        rs \in GatewayResults(js), k \in 1..(Len(js) + 1),
        i \in StrayIds(js), o \in RemoteLogs}

InitFaulty ==
    /\ Init
    /\ Len(teams) >= 2
    /\ Len(Matches(teams, layouts)) <= MaxFaultyJobs

\* results = cm.start(), with a stray record among the results
FaultyClusterReturn ==
    /\ mode = "remote" /\ pc = "submitted"
    /\ results' \in FaultyGatewayResults(jobs)
    /\ idx' = 1
    /\ pc' = "analysing"
    /\ UNCHANGED <<teams, layouts, ladder, games, errors, team_stats, mode, jobs,
                   call, ret>>

NextFaulty ==
    \/ RunContestRemotely
    \/ FaultyClusterReturn
    \/ AnalyseResult
    \/ UpdateWww

SpecFaulty == InitFaulty /\ [][NextFaulty]_vars

----------------------------------------------------------------------------
(* The tournament of src/ssh_commands_script.py *)

\* The body of: elif line.find("agent crashed") != -1, in ssh_commands_script.py
SshCrashRule(st, line, red, blue) ==
    LET s0 == [st EXCEPT !.bug = TRUE]
        s1 == IF Find(line, RED_CRASHED)
              THEN [s0 EXCEPT !.errors[red] = @ + 1] ELSE s0
    IN  IF Find(line, BLUE_CRASHED)
        THEN [s1 EXCEPT !.errors[blue] = @ + 1] ELSE s1

\* The if / elif chain of ssh_commands_script.py
SshChainRule(st, line, red, blue) ==
    IF FindSp(line, BLUE_RETURNED)
    THEN LET n == PyInt(TokenAfter(line, BLUE_RETURNED))
         IN  IF ~n.ok THEN [st EXCEPT !.raised = TRUE]
             ELSE [st EXCEPT !.score = Abs(n.val), !.winner = blue, !.loser = red]
    ELSE IF FindSp(line, RED_RETURNED)
    THEN LET n == PyInt(TokenAfter(line, RED_RETURNED))
         IN  IF ~n.ok THEN [st EXCEPT !.raised = TRUE]
             ELSE [st EXCEPT !.score = Abs(n.val), !.winner = red, !.loser = blue]
    ELSE IF Find(line, TIE_GAME)
    THEN [st EXCEPT !.winner = None, !.loser = None]
    ELSE IF Find(line, AGENT_CRASHED)
    THEN SshCrashRule(st, line, red, blue)
    ELSE st

RECURSIVE SshParseLines(_, _, _, _)
SshParseLines(st, lines, red, blue) ==
    IF lines = <<>> \/ st.raised THEN st
    ELSE LET s1 == WinsByRule(st, Head(lines), red, blue)
             s2 == IF s1.raised THEN s1 ELSE SshChainRule(s1, Head(lines), red, blue)
         IN  SshParseLines(s2, Tail(lines), red, blue)

\* _parse_result of ssh_commands_script.py
ssh_parse_result(output, red, blue, errs) ==
    SshParseLines(ParseStart(errs), output, red, blue)

\* The part of _run_match of ssh_commands_script.py that follows the game
ssh_run_match(t, red, blue, layout, output) ==
    LET st == ssh_parse_result(output, red, blue, t.errors)
        r == Returned(st)
    IN  IF st.raised
        THEN [ladder |-> t.ladder, games |-> t.games, errors |-> st.errors,
              ret |-> r, raised |-> TRUE]
        ELSE [ladder |-> IF ~r.bug THEN update_ladder(t.ladder, red, blue, r)
                         ELSE t.ladder,
              games |-> Append(t.games, game_record(red, blue, layout, r)),
              errors |-> st.errors,
              ret |-> r, raised |-> FALSE]

\* _prepare_platform of ssh_commands_script.py: every layout of the zip file
ssh_prepare_platform(namelist) == namelist

InitSsh ==
    \E n \in 0..MaxTeams, k \in 0..Len(LayoutsAvailable) :
        LET ls == ssh_prepare_platform(SubSeq(LayoutsAvailable, 1, k))
        IN  /\ Len(Matches(setup_teams(n), ls)) <= MaxMatches
            /\ Constructed(setup_teams(n), ls)

\* The directories there are once run_contest() of ssh_commands_script.py
\* has run os.makedirs(self.results_dir_full_path), as paths from the
\* working directory; <run_id> is the time the runner was constructed.
ssh_dirs == {<<"results">>, <<"results", "results_<run_id>">>, <<"www">>}

\* The directory of "results_%s/results.html" % self.contest_run_id
ssh_no_teams_report_dir == <<"results_<run_id>">>

\* open(path, "w") raises IOError unless the directory of the path exists
open_raises(dir, dirs) == dir \notin dirs

\* run_contest() of ssh_commands_script.py up to its loops: with at most one
\* team it first writes a report, and then runs the loops over no match
SshRunContest ==
    /\ pc = "init"
    /\ mode' = "ssh"
    /\ idx' = 1
    /\ pc' = IF Len(teams) <= 1 /\ open_raises(ssh_no_teams_report_dir, ssh_dirs)
             THEN "io_error"
             ELSE IF Len(Matches(teams, layouts)) = 0 THEN "finished" ELSE "running"
    /\ UNCHANGED <<teams, layouts, ladder, games, errors, team_stats, jobs,
                   results, call, ret>>

\* One iteration of run_contest: _run_match(red_team, blue_team, layout)
SshRunMatch ==
    /\ mode = "ssh" /\ pc = "running"
    /\ \E log \in MatchLogs :
          LET m == Matches(teams, layouts)[idx]
              a == ssh_run_match(Tally(ladder, games, errors), m[1], m[2], m[3], log)
          IN  /\ call' = [output |-> log, red |-> m[1], blue |-> m[2]]
              /\ ret' = a.ret
              /\ ladder' = a.ladder
              /\ games' = a.games
              /\ errors' = a.errors
              /\ idx' = idx + 1
              /\ pc' = IF a.raised THEN "raised"
                       ELSE IF idx = Len(Matches(teams, layouts)) THEN "finished"
                       ELSE pc
    /\ UNCHANGED <<teams, layouts, team_stats, mode, jobs, results>>

NextSsh ==
    \/ SshRunContest
    \/ SshRunMatch
    \/ UpdateWww
    \/ UpdateWwwAgain
    \/ CalculateTeamStats

SpecSsh == InitSsh /\ [][NextSsh]_vars

\* self._parse_result(output, red_team_name, blue_team_name) of ssh_commands_script.py
SshParseResult ==
    /\ mode = "parse" /\ pc = "call"
    /\ LET st == ssh_parse_result(call.output, call.red, call.blue, errors)
       IN  /\ errors' = st.errors
           /\ ret' = Returned(st)
           /\ pc' = IF st.raised THEN "raised" ELSE "returned"
    /\ UNCHANGED <<teams, layouts, ladder, games, team_stats, mode, jobs,
                   results, idx, call>>

NextSshParse == SshParseResult

SpecSshParse == InitParse /\ [][NextSshParse]_vars

----------------------------------------------------------------------------
(* Planning alone, for larger tournaments: the loops of run_contest and of
   run_contest_remotely up to the submission of the batch *)

InitPlan ==
    \E n \in 0..PlanMaxTeams, nf \in 0..PlanMaxFixed, nr \in 0..MaxRandomLayouts :
        \E ls \in prepare_platform(LayoutsAvailable, nf, nr) :
            Constructed(setup_teams(n), ls)

NextPlan ==
    \/ RunContest
    \/ RunContestRemotely

SpecPlan == InitPlan /\ [][NextPlan]_vars

----------------------------------------------------------------------------
(* Properties *)

\* Number of positions of seq that hold x.
Count(seq, x) == Cardinality({k \in DOMAIN seq : seq[k] = x})

\* The (red, blue, layout) key of every record of self.games, in order.
GameKeys == [k \in DOMAIN games |-> <<games[k][1], games[k][2], games[k][3]>>]

\* The ids of the jobs, in order.
JobIds == [k \in DOMAIN jobs |-> jobs[k].id]

\* Positions of ms whose match is between the teams a and b, in either colour.
PairMatches(ms, a, b) ==
    {k \in DOMAIN ms : {ms[k][1], ms[k][2]} = {a, b}}

\* C1: with N >= 2 distinct teams and L >= 1 layouts the loops of run_contest
\* enumerate exactly N*(N-1)/2*L matches, every unordered pair of distinct
\* teams meets exactly L times, once for every entry of the layout list, no
\* match pairs a team with itself, and run_contest_remotely builds one job
\* for each of these matches, in the same order.
C1_PlanIsRoundRobin ==
    LET ms == Matches(teams, layouts)
        N == Len(teams)
        L == Len(layouts)
    IN  /\ (N >= 2 /\ L >= 1) =>
              /\ 2 * Len(ms) = N * (N - 1) * L
              /\ \A i, j \in 1..N : i # j =>
                    /\ Cardinality(PairMatches(ms, teams[i], teams[j])) = L
                    /\ \A l \in 1..L :
                          Cardinality({k \in PairMatches(ms, teams[i], teams[j]) :
                                          ms[k][3] = layouts[l]})
                            = Count(layouts, layouts[l])
              /\ \A k \in DOMAIN ms : ms[k][1] # ms[k][2]
        /\ pc = "submitted" => JobIds = ms

\* C1 witness: four teams on two layouts have been packaged into twelve jobs.
C1_Witness ==
    /\ pc = "submitted"
    /\ Len(teams) = 4 /\ Len(layouts) = 2
    /\ Len(jobs) = 12

\* C2: the correlation ids (red_team, blue_team, layout) of the jobs that
\* run_contest_remotely builds are pairwise distinct.
C2_JobIdsDistinct ==
    pc = "submitted" =>
        \A i, j \in DOMAIN jobs : i # j => jobs[i].id # jobs[j].id

\* The permutations of the positions of seq.
PositionPerms(seq) == {q \in [DOMAIN seq -> DOMAIN seq] : Injective(q)}

\* The tally __init__ leaves.
EmptyTally ==
    Tally([t \in TeamSet(teams) |-> <<>>], <<>>, [t \in TeamSet(teams) |-> 0])

\* C3: once the returned records have been analysed and the standings
\* computed, analysing the same records in any other order would have given
\* the same team_stats for every team.
C3_OrderIndependent ==
    (mode = "remote" /\ pc = "reported") =>
        \A q \in PositionPerms(results) :
            LET a == analyse_all_outputs(EmptyTally,
                                         [k \in DOMAIN results |-> results[q[k]]])
            IN  /\ ~a.raised
                /\ calculate_team_stats(a.ladder, a.errors) = team_stats

\* C3 witness: three records came back out of job order, a team has both a
\* win and a loss on its ladder, and the standings were computed.
C3_Witness ==
    /\ mode = "remote" /\ pc = "reported"
    /\ Len(results) = 3
    /\ \E k \in DOMAIN results : results[k].id # jobs[k].id
    /\ \E t \in TeamSet(teams) : team_stats[t][2] > 0 /\ team_stats[t][4] > 0

\* C4: when a run has finished, self.games holds one record for every
\* planned match (as many records with a key as the plan has matches with
\* that key) and no record for anything else.
C4_AccountingTotal ==
    pc \in {"finished", "reported"} =>
        LET ms == Matches(teams, layouts)
        IN  /\ Len(games) = Len(ms)
            /\ \A k \in DOMAIN ms : Count(GameKeys, ms[k]) = Count(ms, ms[k])
            /\ \A k \in DOMAIN games : Count(ms, GameKeys[k]) > 0

\* C4 witness: a remote run finished with three records, one of them of a
\* crashed match, returned out of job order.
C4_Witness ==
    /\ mode = "remote" /\ pc = "finished"
    /\ Len(games) = 3
    /\ GameKeys # Matches(teams, layouts)
    /\ \E k \in DOMAIN games : games[k][4] = CRASH_SCORE

\* Number of records of self.games in which team t played.
PlayedBy(t) == Cardinality({k \in DOMAIN games : t \in {games[k][1], games[k][2]}})

Last(seq) == seq[Len(seq)]

\* A match has been analysed and its outcome returned by _parse_result is in ret.
Processed == pc \in {"running", "analysing", "finished", "reported"} /\ idx > 1

\* C5: every processed match, crashed or not, appends one entry to the
\* ladder of each of its two teams: +score to the winner and -score to the
\* loser, or the score itself to both when there is no winner; so every
\* team's ladder is as long as the number of matches the team played.
C5_OneLadderEntryPerMatch ==
    /\ \A t \in TeamSet(teams) : Len(ladder[t]) = PlayedBy(t)
    /\ Processed =>
          /\ Len(ladder[call.red]) > 0 /\ Len(ladder[call.blue]) > 0
          /\ IF ret.winner = None
             THEN /\ Last(ladder[call.red]) = ret.score
                  /\ Last(ladder[call.blue]) = ret.score
             ELSE /\ Last(ladder[ret.winner]) = ret.score
                  /\ Last(ladder[ret.loser]) = -ret.score

\* The line matches one of the two 'has returned at least' rules.
ReturnedLine(line) == FindSp(line, BLUE_RETURNED) \/ FindSp(line, RED_RETURNED)

\* The line writes the score through the 'wins by' or a 'has returned' rule.
ScoreLine(line) == Find(line, WINS_BY) \/ ReturnedLine(line)

\* The scan reaches the crash rule on this line.
CrashRuleFires(line) ==
    Find(line, AGENT_CRASHED) /\ ~ReturnedLine(line) /\ ~Find(line, TIE_GAME)

\* The line matches at least one rule of the grammar.
RuleLine(line) ==
    ScoreLine(line) \/ Find(line, TIE_GAME) \/ Find(line, AGENT_CRASHED)

\* Line i is the only line of the parsed log that matches a rule.
OnlyRuleLine(i) ==
    /\ RuleLine(call.output[i])
    /\ \A j \in DOMAIN call.output : j # i => ~RuleLine(call.output[j])

\* C6 as claimed: whenever _parse_result returns crashed = true, the
\* returned score is 1.
C6_CrashedScoreIsOne ==
    pc = "returned" => (ret.bug => ret.score = 1)

\* C6 amended: when the crash rule fires on a line that names the Red or the
\* Blue agent and no later line is a 'wins by' or 'has returned at least'
\* line, _parse_result returns crashed = true and score 1, whatever score
\* lines came before.
C6_LastCrashScoresOne ==
    pc = "returned" =>
        \A i \in DOMAIN call.output :
            ( /\ CrashRuleFires(call.output[i])
              /\ Find(call.output[i], RED_CRASHED) \/ Find(call.output[i], BLUE_CRASHED)
              /\ \A j \in DOMAIN call.output : j > i => ~ScoreLine(call.output[j]) )
            => (ret.bug /\ ret.score = 1)

\* C6 witness: a 'wins by 7 points' line followed by a crash of the Blue
\* agent parsed to score 1.
C6_Witness ==
    /\ pc = "returned"
    /\ call.output = <<RedWins7, BlueCrashed>>
    /\ ret.bug /\ ret.score = 1

\* Some line on which the crash rule fires reports the given agent as crashed.
ReportsCrash(output, crashed) ==
    \E i \in DOMAIN output : CrashRuleFires(output[i]) /\ Find(output[i], crashed)

\* C7: parsing one log raises the crash counter of a team by 1 when the log
\* reports that team's agent as crashed and by 0 otherwise, however many
\* crash lines the log holds (the counters start at 0 when the parser is
\* examined alone).
C7_OneIncrementPerSide ==
    pc = "returned" =>
        /\ errors[call.red] = IF ReportsCrash(call.output, RED_CRASHED) THEN 1 ELSE 0
        /\ errors[call.blue] = IF ReportsCrash(call.output, BLUE_CRASHED) THEN 1 ELSE 0
        /\ \A t \in TeamSet(teams) \ {call.red, call.blue} : errors[t] = 0

\* The line matches the crash rule only, and names only the given agent.
CrashOnly(line, crashed, other) ==
    /\ Find(line, crashed) /\ ~Find(line, other)
    /\ ~ScoreLine(line) /\ ~Find(line, TIE_GAME)

\* C8: a log whose only rule-matching line says 'Blue agent crashed' parses
\* to score 1, winner red team, loser blue team, crashed; one that says
\* 'Red agent crashed' to score 1, winner blue team, loser red team, crashed.
C8_CrashLineOutcome ==
    pc # "call" =>
        \A i \in DOMAIN call.output :
            /\ (OnlyRuleLine(i) /\ CrashOnly(call.output[i], BLUE_CRASHED, RED_CRASHED))
                  => /\ pc = "returned"
                     /\ ret = [score |-> 1, winner |-> call.red,
                               loser |-> call.blue, bug |-> TRUE]
            /\ (OnlyRuleLine(i) /\ CrashOnly(call.output[i], RED_CRASHED, BLUE_CRASHED))
                  => /\ pc = "returned"
                     /\ ret = [score |-> 1, winner |-> call.blue,
                               loser |-> call.red, bug |-> TRUE]

\* The line reads '... wins by K points ...' and matches no other rule.
WinsByPoints(line, K) ==
    /\ Cardinality(Occurrences(line, WINS_BY)) = 1
    /\ \E p \in 1..(Len(line) - 2) :
          /\ line[p] = "wins by" /\ line[p + 2] = "points"
          /\ line[p + 1] \in DOMAIN NumeralValue
          /\ NumeralValue[line[p + 1]] = K
    /\ ~ReturnedLine(line) /\ ~Find(line, TIE_GAME) /\ ~Find(line, AGENT_CRASHED)

\* C9: a log whose only rule-matching line is a 'wins by K points' line
\* parses to score |K|, not crashed, with winner red team and loser blue team
\* when the line names Red, and winner blue team and loser red team when it
\* names Blue (and not Red).
C9_WinsByOutcome ==
    pc # "call" =>
        \A i \in DOMAIN call.output : \A K \in -3..7 :
            (OnlyRuleLine(i) /\ WinsByPoints(call.output[i], K)) =>
                /\ pc = "returned"
                /\ ret.score = Abs(K)
                /\ ~ret.bug
                /\ Find(call.output[i], <<"Red">>) =>
                      (ret.winner = call.red /\ ret.loser = call.blue)
                /\ (~Find(call.output[i], <<"Red">>) /\ Find(call.output[i], <<"Blue">>)) =>
                      (ret.winner = call.blue /\ ret.loser = call.red)

\* C9 witness: 'The Blue team wins by -3 points' after a line that matches
\* no rule parsed to score 3 for the blue team.
C9_Witness ==
    /\ pc = "returned"
    /\ call.output = <<TimeIsUp, BlueWinsNeg3>>
    /\ ret = [score |-> 3, winner |-> call.blue, loser |-> call.red, bug |-> FALSE]

\* C10: a log in which no line matches the 'wins by', 'has returned at
\* least' or 'agent crashed' rule parses to score 0, no winner, no loser,
\* not crashed, with or without a 'Tie Game' line.
C10_NoRuleIsTie ==
    pc # "call" =>
        ( (\A i \in DOMAIN call.output :
              ~ScoreLine(call.output[i]) /\ ~Find(call.output[i], AGENT_CRASHED))
          => /\ pc = "returned"
             /\ ret = [score |-> 0, winner |-> None, loser |-> None, bug |-> FALSE] )

\* C10 witness: a log of a 'Tie Game' line and a line that matches no rule
\* has been parsed.
C10_Witness ==
    /\ pc = "returned"
    /\ call.output = <<TieGame, TimeIsUp>>
    /\ ret.score = 0 /\ ret.winner = None

----------------------------------------------------------------------------
(* C11 *)

\* C11: parsing and aggregation never raise: whatever the text of a match,
\* _parse_result and the ladder update of _analyse_output complete normally
\* and give a value.
C11_NeverRaises == pc # "raised"

----------------------------------------------------------------------------
(* C12 *)

\* The ids of the records the cluster manager returned, in order.
ResultIds == [k \in DOMAIN results |-> results[k].id]

\* The returned batch breaks the contract: a key returned more often than it
\* was planned (two records with one key, or a key of no planned match).
FaultyBatch ==
    \E k \in DOMAIN results :
        Count(ResultIds, results[k].id) > Count(JobIds, results[k].id)

\* C12: when the cluster manager returns two records with one correlation
\* key, or a record whose key is the key of no planned match,
\* run_contest_remotely ends in a fatal error and that record is not folded
\* into the ladders, the crash counters or the games: the run never finishes
\* normally, and no key has more records in self.games than jobs planned.
C12_FaultyBatchIsFatal ==
    (mode = "remote" /\ FaultyBatch) =>
        /\ pc \notin {"finished", "reported"}
        /\ \A k \in DOMAIN games : Count(GameKeys, GameKeys[k]) <= Count(JobIds, GameKeys[k])

----------------------------------------------------------------------------
(* C13 *)

\* The ways to see the returned records as the outcomes of the planned
\* matches: q[k] is the position of the record of the k-th planned match.
Attributions ==
    {q \in PositionPerms(results) :
        \A k \in DOMAIN results : results[q[k]].id = Matches(teams, layouts)[k]}

\* C13: the standings a distributed run reports are the standings the local
\* sequential run of the same teams and layouts computes when every match
\* leaves the text its job left, in whatever order the records came back.
C13_LocalEqualsRemote ==
    (mode = "remote" /\ pc = "reported") =>
        /\ Attributions # {}
        /\ \A q \in Attributions :
              LET logs == [k \in DOMAIN results |->
                              results[q[k]].output \o results[q[k]].error]
                  loc == run_contest(teams, layouts, logs)
              IN  /\ ~loc.raised
                  /\ calculate_team_stats(loc.ladder, loc.errors) = team_stats

\* C13 witness: three records came back out of job order, one of them with a
\* crash reported on stderr, and the standings were computed.
C13_Witness ==
    /\ mode = "remote" /\ pc = "reported"
    /\ Len(results) = 3
    /\ results[1].id = jobs[3].id
    /\ \E k \in DOMAIN results : results[k].error # <<>>
    /\ \E t \in TeamSet(teams) : team_stats[t][5] > 0

----------------------------------------------------------------------------
(* C14 *)

RECURSIVE SumSeq(_)
\* The sum of the entries of a sequence of numbers.
SumSeq(seq) == IF seq = <<>> THEN 0 ELSE Head(seq) + SumSeq(Tail(seq))

\* C14: after _calculate_team_stats the standings of every team are
\* [points, wins, draws, losses, crashes, balance] with wins, draws and
\* losses the number of positive, zero and negative entries of its ladder,
\* points = 3 * wins + draws, crashes its crash counter, balance the sum of
\* the ladder, and wins + draws + losses the length of the ladder.
C14_StatsFromLadder ==
    pc = "reported" =>
        \A t \in TeamSet(teams) :
            LET w == Cardinality({i \in DOMAIN ladder[t] : ladder[t][i] > 0})
                d == Cardinality({i \in DOMAIN ladder[t] : ladder[t][i] = 0})
                l == Cardinality({i \in DOMAIN ladder[t] : ladder[t][i] < 0})
            IN  /\ team_stats[t] = <<(3 * w) + d, w, d, l, errors[t], SumSeq(ladder[t])>>
                /\ team_stats[t][1] = (3 * team_stats[t][2]) + team_stats[t][3]
                /\ team_stats[t][2] + team_stats[t][3] + team_stats[t][4] = Len(ladder[t])

\* C14 witness: the standings were computed for a team that won a match,
\* drew one, lost one and crashed.
C14_Witness ==
    /\ pc = "reported"
    /\ \E t \in TeamSet(teams) :
          /\ team_stats[t][2] > 0 /\ team_stats[t][3] > 0 /\ team_stats[t][4] > 0
          /\ team_stats[t][5] > 0
          /\ team_stats[t][6] # 0

----------------------------------------------------------------------------
(* C15 *)

\* Positions of self.games whose match team t played.
GamesOf(t) == {k \in DOMAIN games : t \in {games[k][1], games[k][2]}}

\* C15: the ladder entries of a processed match encode its result: the
\* winner's entry is positive and the loser's negative, and both entries are
\* zero when the match has no winner; so the wins, draws and losses of a team
\* in team_stats are the numbers of its matches that it won, that had no
\* winner, and that the other team won.
C15_LadderEncodesResult ==
    /\ Processed =>
          IF ret.winner = None
          THEN Last(ladder[call.red]) = 0 /\ Last(ladder[call.blue]) = 0
          ELSE Last(ladder[ret.winner]) > 0 /\ Last(ladder[ret.loser]) < 0
    /\ pc = "reported" =>
          \A t \in TeamSet(teams) :
              /\ team_stats[t][2] = Cardinality({k \in GamesOf(t) : games[k][5] = t})
              /\ team_stats[t][3] = Cardinality({k \in GamesOf(t) : games[k][5] = None})
              /\ team_stats[t][4] =
                    Cardinality({k \in GamesOf(t) : games[k][5] \notin {None, t}})

----------------------------------------------------------------------------
(* C16 *)

\* C16: the games record of a processed match carries 9999 as its score when
\* the parsed outcome is crashed and the parsed score when it is not, next to
\* the parsed winner; the ladder entries of the match are built from the
\* parsed score, and no ladder entry is 9999 or -9999.
C16_CrashScoreOnlyInGames ==
    /\ Processed =>
          /\ Last(games)[4] = (IF ret.bug THEN CRASH_SCORE ELSE ret.score)
          /\ Last(games)[5] = ret.winner
          /\ Last(ladder[call.red]) \in {ret.score, -ret.score}
          /\ Last(ladder[call.blue]) \in {ret.score, -ret.score}
    /\ \A t \in TeamSet(teams) : \A i \in DOMAIN ladder[t] :
          ladder[t][i] \notin {CRASH_SCORE, -CRASH_SCORE}

\* C16 witness: a match in which the red agent crashed was processed: its
\* games record carries 9999, the ladders of the two teams got +1 and -1.
C16_Witness ==
    /\ Processed
    /\ ret.bug /\ ret.score = 1 /\ ret.winner = call.blue
    /\ Last(games)[4] = CRASH_SCORE
    /\ Last(ladder[call.blue]) = 1 /\ Last(ladder[call.red]) = -1

----------------------------------------------------------------------------
(* C17 *)

\* C17: with fewer than 2 teams the plan has no match and no job, the run
\* ends without an error, the ladders, the games and the crash counters keep
\* the values __init__ gave them, and the report is one of the two
\* 'no match was run' sentences.
C17_FewTeamsNoMatch ==
    Len(teams) < 2 =>
        /\ Matches(teams, layouts) = <<>>
        /\ jobs = <<>>
        /\ pc \notin {"raised", "io_error", "running", "analysing"}
        /\ Tally(ladder, games, errors) = EmptyTally
        /\ pc = "reported" =>
              generate_output(teams, team_stats, games) \in
                  {"No teams participated, thus no match was run.",
                   "Only one team participated, thus no match was run."}

----------------------------------------------------------------------------
(* C18 *)

\* C18: recomputing the standings is idempotent: once update_www has
\* computed team_stats, a further call of _calculate_team_stats with no
\* outcome processed in between leaves team_stats as it is.
C18_RecomputeIsIdempotent ==
    [][(pc = "reported" /\ pc' = "reported") => team_stats' = team_stats]_vars

\* C18 witness: the standings were computed for a run in which a team has a
\* win, a loss and a crash, so that a second count would show.
C18_Witness ==
    /\ pc = "reported"
    /\ games # <<>>
    /\ team_stats = calculate_team_stats(ladder, errors)
    /\ \E t \in TeamSet(teams) :
          team_stats[t][2] > 0 /\ team_stats[t][4] > 0 /\ team_stats[t][5] > 0

----------------------------------------------------------------------------
(* C19 *)

\* What a call of _parse_result returns does not depend on the crash
\* counters the runner holds when it is called.
SameReturnWhateverCounters ==
    \A e \in [TeamSet(teams) -> 0..1] :
        Returned(parse_result(call.output, call.red, call.blue, e)) = ret

\* C19 as claimed: _parse_result is a pure function of (output, red name,
\* blue name): what it returns does not depend on the runner's state, and a
\* call changes no runner state.
C19_ParseResultIsPure ==
    pc # "call" =>
        /\ SameReturnWhateverCounters
        /\ Tally(ladder, games, errors) = EmptyTally
        /\ team_stats = [t \in TeamSet(teams) |-> 0]

\* C19 amended: what _parse_result returns is a function of (output, red
\* name, blue name) alone, and a call leaves the ladders, the games and
\* team_stats as they are; of the runner's state it changes only self.errors,
\* and only by raising the counters of the two teams of the call when the
\* crash rule fires on a line of the text.
C19_ReturnIsPure ==
    pc # "call" =>
        /\ SameReturnWhateverCounters
        /\ ladder = [t \in TeamSet(teams) |-> <<>>]
        /\ games = <<>>
        /\ team_stats = [t \in TeamSet(teams) |-> 0]
        /\ \A t \in TeamSet(teams) :
              /\ errors[t] >= 0
              /\ t \notin {call.red, call.blue} => errors[t] = 0
        /\ (\A i \in DOMAIN call.output : ~CrashRuleFires(call.output[i])) =>
              \A t \in TeamSet(teams) : errors[t] = 0

\* C19 witness: a call on 'Red agent crashed' and a 'wins by' line returned
\* crashed and left 1 in the crash counter of the red team.
C19_Witness ==
    /\ pc = "returned"
    /\ call.output = <<RedCrashed, BlueWins2>>
    /\ ret.bug
    /\ errors[call.red] = 1 /\ errors[call.blue] = 0

----------------------------------------------------------------------------
(* C20 *)

\* C20: every line is checked against the crash rule: _parse_result returns
\* crashed = true exactly when some line of the text contains
\* 'agent crashed', also when that line matches a 'has returned at least'
\* rule or 'Tie Game' as well.
C20_CrashedIffCrashLine ==
    pc = "returned" =>
        (ret.bug <=> \E i \in DOMAIN call.output : Find(call.output[i], AGENT_CRASHED))

----------------------------------------------------------------------------
(* C21 *)

\* The line without its 'Tie Game'.
WithoutTie(line) == SelectSeq(line, LAMBDA tok : <<tok>> # TIE_GAME)

\* The score the rules other than 'Tie Game' give the parsed text up to and
\* including its last line.
ScoreOfOtherRules ==
    parse_result([call.output EXCEPT ![Len(call.output)] = WithoutTie(@)],
                 call.red, call.blue, [t \in TeamSet(teams) |-> 0]).score

\* C21: a line that contains 'Tie Game' clears the winner and the loser and
\* leaves the score alone, whatever else the line contains: a text whose
\* last line contains 'Tie Game' parses to no winner, no loser and the score
\* the other rules give the text.
C21_TieClearsWinner ==
    (pc = "returned" /\ call.output # <<>> /\ Find(Last(call.output), TIE_GAME)) =>
        /\ ret.winner = None
        /\ ret.loser = None
        /\ ret.score = ScoreOfOtherRules

----------------------------------------------------------------------------
(* C22 *)

\* The line reads '<phrase> N ...', phrase one of the two 'has returned at
\* least' phrases, and matches no other rule.
ReturnedAtLeast(line, phrase, N) ==
    /\ Cardinality(Occurrences(line, phrase)) = 1
    /\ \E p \in 1..(Len(line) - Len(phrase)) :
          /\ SubSeq(line, p, p + Len(phrase) - 1) = phrase
          /\ line[p + Len(phrase)] \in DOMAIN NumeralValue
          /\ NumeralValue[line[p + Len(phrase)]] = N
    /\ Cardinality({ph \in {BLUE_RETURNED, RED_RETURNED} : Find(line, ph)}) = 1
    /\ ~Find(line, WINS_BY) /\ ~Find(line, TIE_GAME) /\ ~Find(line, AGENT_CRASHED)

\* The result the line states: score sc, won by w against l, the red team
\* being red and the blue team blue.  The line is a 'wins by K points' line
\* that names Red or Blue, or a 'has returned at least N' line.
LineStates(line, red, blue, sc, w, l) ==
    \/ \E K \in -3..7 :
          /\ WinsByPoints(line, K) /\ sc = Abs(K)
          /\ \/ Find(line, <<"Red">>) /\ w = red /\ l = blue
             \/ ~Find(line, <<"Red">>) /\ Find(line, <<"Blue">>) /\ w = blue /\ l = red
    \/ \E N \in -3..7 :
          \/ ReturnedAtLeast(line, BLUE_RETURNED, N) /\ sc = Abs(N) /\ w = blue /\ l = red
          \/ ReturnedAtLeast(line, RED_RETURNED, N) /\ sc = Abs(N) /\ w = red /\ l = blue

\* The line states a result.
StatesResult(line) ==
    \E sc \in 0..7, w \in {"r", "b"}, l \in {"r", "b"} : LineStates(line, "r", "b", sc, w, l)

\* C22: when a text holds a 'wins by' line and a 'has returned at least'
\* line, the later of the two stating a result and no line after it
\* matching any rule, the returned score, winner and loser are those of the
\* later line, whichever of the two rules it matches.
C22_LaterScoreLineWins ==
    pc = "returned" =>
        \A i, j \in DOMAIN call.output :
            ( /\ i < j
              /\ \/ Find(call.output[i], WINS_BY) /\ ReturnedLine(call.output[j])
                 \/ ReturnedLine(call.output[i]) /\ Find(call.output[j], WINS_BY)
              /\ StatesResult(call.output[j])
              /\ \A k \in DOMAIN call.output : k > j => ~RuleLine(call.output[k]) )
            => LineStates(call.output[j], call.red, call.blue,
                          ret.score, ret.winner, ret.loser)

\* C22 witness: 'The Red team wins by 7 points' followed by 'The Blue team
\* has returned at least 2 dots' parsed to score 2 for the blue team.
C22_Witness ==
    /\ pc = "returned"
    /\ call.output = <<RedWins7, BlueReturned2>>
    /\ ret.score = 2 /\ ret.winner = call.blue /\ ret.loser = call.red

----------------------------------------------------------------------------
(* C23 *)

\* C23: in a distributed run the job of every planned match is built before
\* the batch is handed over; while the cluster manager has the batch the
\* ladders, the crash counters and the games are as __init__ left them; they
\* change only once the whole list of results is back, and then the records
\* are parsed and folded one after the other, in the order of that list.
C23_NoPartialAggregation ==
    mode = "remote" =>
        /\ JobIds = Matches(teams, layouts)
        /\ pc = "submitted" =>
              results = <<>> /\ Tally(ladder, games, errors) = EmptyTally
        /\ Tally(ladder, games, errors) # EmptyTally =>
              pc \in {"analysing", "raised", "finished", "reported", "update_failed"}
        /\ pc = "analysing" =>
              /\ Len(games) = idx - 1
              /\ \A k \in DOMAIN games : GameKeys[k] = results[k].id
        /\ Len(games) <= Len(results)

\* C23 witness: a batch of three jobs has come back and the first of its
\* three records, and no other, has been folded.
C23_Witness ==
    /\ mode = "remote" /\ pc = "analysing"
    /\ Len(jobs) = 3 /\ Len(results) = 3
    /\ idx = 2 /\ Len(games) = 1

----------------------------------------------------------------------------
(* C24 *)

\* C24: a local run executes the planned matches one at a time in planner
\* order: the games are always the records of the first matches of the plan,
\* in that order, every match before the one about to start has been folded
\* into the ladders and the games, and when run_contest is over every planned
\* match has been executed exactly once.
C24_LocalRunInPlannerOrder ==
    mode = "local" =>
        /\ GameKeys = SubSeq(Matches(teams, layouts), 1, Len(games))
        /\ pc = "running" =>
              /\ Len(games) = idx - 1
              /\ \A t \in TeamSet(teams) : Len(ladder[t]) = PlayedBy(t)
        /\ pc # "running" => GameKeys = Matches(teams, layouts)

----------------------------------------------------------------------------
(* C25 *)

\* s is t or the beginning of t.
IsPrefix(s, t) == Len(s) <= Len(t) /\ SubSeq(t, 1, Len(s)) = s

\* C25: processing the outcome of a match only appends: the ladders and the
\* crash counters of the teams that did not play it stay as they are, every
\* ladder and the games keep what they held as their beginning, no crash
\* counter goes down, and the games get exactly one more record.
C25_OnlyAppends ==
    [][(pc \in {"running", "analysing"} /\ pc' # "raised") =>
          /\ \A t \in TeamSet(teams) \ {call'.red, call'.blue} :
                ladder'[t] = ladder[t] /\ errors'[t] = errors[t]
          /\ \A t \in TeamSet(teams) :
                IsPrefix(ladder[t], ladder'[t]) /\ errors'[t] >= errors[t]
          /\ IsPrefix(games, games')
          /\ Len(games') = Len(games) + 1]_vars

\* C25 witness: the second match of three teams, with a crash, has been
\* processed; the team that did not play it still has its one ladder entry
\* and no crash counted.
C25_Witness ==
    /\ Processed /\ Len(games) = 2
    /\ ret.bug
    /\ \E t \in TeamSet(teams) \ {call.red, call.blue} :
          Len(ladder[t]) = 1 /\ errors[t] = 0
    /\ Len(ladder[call.red]) + Len(ladder[call.blue]) = 3

----------------------------------------------------------------------------
(* C26 *)

\* C26: whatever the log, the outcome that _parse_result returns for two
\* different teams is well formed: it has a winner exactly when it has a
\* loser, a winner and a loser are the two teams of the match, one each, and
\* the score is an integer that is not negative.
C26_OutcomeWellFormed ==
    (pc = "returned" /\ call.red # call.blue) =>
        /\ (ret.winner = None) <=> (ret.loser = None)
        /\ ret.winner # None =>
              /\ ret.winner # ret.loser
              /\ {ret.winner, ret.loser} = {call.red, call.blue}
        /\ ret.score \in Nat

\* C26 witness: a crash of Blue and then a win of Blue by -3 points come back
\* as Blue winning over Red by 3.
C26_Witness ==
    /\ pc = "returned" /\ call.red # call.blue
    /\ call.output = <<BlueCrashed, BlueWinsNeg3>>
    /\ ret = [score |-> 3, winner |-> call.blue, loser |-> call.red, bug |-> TRUE]

====
